---------------------------- MODULE Spec2Model ----------------------------
(***************************************************************************)
(* Model of the browser threat detector of Riskify:                        *)
(*   ml/threatDetector.ts  (class ThreatDetectionModel)                    *)
(*   ml/textProcessor.ts   (cleanText, calculateRiskIndicators, ...)       *)
(*                                                                         *)
(* Texts are sequences of one-character strings.  Scores are integers in   *)
(* hundredths (0.25 is 25), so every constant of the code is exact.        *)
(* processingTime is wall-clock time and is left out of a prediction; the  *)
(* fields entities and features are pure functions of the raw text, which  *)
(* a prediction carries in the field text.                                 *)
(***************************************************************************)
EXTENDS Integers, Sequences, FiniteSets, TLC

(***************************************************************************)
(* Characters and strings                                                  *)
(***************************************************************************)
UpperChars == <<"A","B","C","D","E","F","G","H","I","J","K","L","M",
                "N","O","P","Q","R","S","T","U","V","W","X","Y","Z">>

LowerChars == <<"a","b","c","d","e","f","g","h","i","j","k","l","m",
                "n","o","p","q","r","s","t","u","v","w","x","y","z">>

\* String.prototype.toLowerCase on one character
LowerChar(ch) ==
    IF \E i \in 1..26 : UpperChars[i] = ch
    THEN LowerChars[CHOOSE i \in 1..26 : UpperChars[i] = ch]
    ELSE ch

\* String.prototype.toLowerCase
ToLower(t) == [i \in 1..Len(t) |-> LowerChar(t[i])]

\* the characters \s matches and trim() strips
IsSpace(ch) == ch \in {" ", "\t", "\n"}

RECURSIVE TrimLeft(_)
TrimLeft(t) ==
    IF t # <<>> /\ IsSpace(Head(t)) THEN TrimLeft(Tail(t)) ELSE t

RECURSIVE TrimRight(_)
TrimRight(t) ==
    IF t # <<>> /\ IsSpace(t[Len(t)])
    THEN TrimRight(SubSeq(t, 1, Len(t) - 1))
    ELSE t

\* String.prototype.trim
Trim(t) == TrimRight(TrimLeft(t))

\* does word occur in t at position i
OccursAt(t, word, i) ==
    /\ i + Len(word) - 1 <= Len(t)
    /\ \A j \in 1..Len(word) : t[i + j - 1] = word[j]

\* String.prototype.includes
Includes(t, word) == \E i \in 1..(Len(t) + 1) : OccursAt(t, word, i)

\* t.split(word).length - 1 for a non-empty word: the occurrences found
\* scanning left to right, each search resuming after the previous match
RECURSIVE SplitCountFrom(_, _, _)
SplitCountFrom(t, word, i) ==
    IF i + Len(word) - 1 > Len(t) THEN 0
    ELSE IF OccursAt(t, word, i)
         THEN 1 + SplitCountFrom(t, word, i + Len(word))
         ELSE SplitCountFrom(t, word, i + 1)

SplitCount(t, word) == SplitCountFrom(t, word, 1)

(***************************************************************************)
(* Regular expressions of the code: a pattern is a set of alternatives,    *)
(* an alternative a sequence of items; an item is a lower-case character,  *)
(* "ANY" for . or "WS+" for \s+ .  All patterns carry the i flag.          *)
(***************************************************************************)
RECURSIVE MatchAt(_, _, _, _)
MatchAt(t, i, alt, j) ==
    IF j > Len(alt) THEN TRUE
    ELSE IF i > Len(t) THEN FALSE
    ELSE IF alt[j] = "WS+"
         THEN IsSpace(t[i]) /\ (MatchAt(t, i + 1, alt, j) \/ MatchAt(t, i + 1, alt, j + 1))
    ELSE IF alt[j] = "ANY"
         THEN t[i] # "\n" /\ MatchAt(t, i + 1, alt, j + 1)
    ELSE LowerChar(t[i]) = alt[j] /\ MatchAt(t, i + 1, alt, j + 1)

\* RegExp.prototype.test
RegexTest(pattern, t) ==
    \E alt \in pattern : \E i \in 1..(Len(t) + 1) : MatchAt(t, i, alt, 1)

(***************************************************************************)
(* textProcessor.ts                                                        *)
(***************************************************************************)
\* the characters the second replace of cleanText keeps: the class is
\* written [^\\w\\s\\.\\!\\?\\@\\-\\_] in a regex literal, where \\ is a
\* literal backslash and \\-\\ the range from backslash to backslash
KeptChars == {"\\", "w", "s", ".", "!", "?", "@", "_"}

\* cleaned.replace(/\s+/g, ' ')
RECURSIVE CollapseSpaces(_)
CollapseSpaces(t) ==
    IF t = <<>> THEN <<>>
    ELSE IF IsSpace(Head(t))
         THEN <<" ">> \o CollapseSpaces(TrimLeft(Tail(t)))
         ELSE <<Head(t)>> \o CollapseSpaces(Tail(t))

\* cleaned.replace(/[^\\w\\s\\.\\!\\?\\@\\-\\_]/g, ' ')
ReplaceSpecial(t) ==
    [i \in 1..Len(t) |-> IF t[i] \in KeptChars THEN t[i] ELSE " "]

cleanText(t) ==
    IF t = <<>> THEN <<>>
    ELSE Trim(ReplaceSpecial(CollapseSpaces(ToLower(t))))

highRiskKeywords ==
    << <<"d","d","o","s">>,
       <<"a","t","t","a","c","k">>,
       <<"h","a","c","k">>,
       <<"r","a","n","s","o","m","w","a","r","e">>,
       <<"s","e","l","l","i","n","g">>,
       <<"b","u","y","i","n","g">>,
       <<"e","x","p","l","o","i","t">> >>

mediumRiskKeywords ==
    << <<"u","r","g","e","n","t">>,
       <<"c","h","e","a","p">>,
       <<"f","r","e","e">>,
       <<"t","e","s","t">>,
       <<"n","e","w">>,
       <<"k","i","t">> >>

toolKeywords ==
    << <<"b","u","i","l","d","e","r">>,
       <<"t","o","o","l">>,
       <<"b","o","t">>,
       <<"p","a","y","l","o","a","d">>,
       <<"f","r","a","m","e","w","o","r","k">> >>

urgencyRegex ==
    { <<"u","r","g","e","n","t">>,
      <<"a","s","a","p">>,
      <<"i","m","m","e","d","i","a","t","e">>,
      <<"n","o","w">>,
      <<"t","o","d","a","y">>,
      <<"t","o","n","i","g","h","t">>,
      <<"t","o","m","o","r","r","o","w">> }

commercialRegex ==
    { <<"s","e","l","l">>,
      <<"b","u","y">>,
      <<"p","r","i","c","e">>,
      <<"c","h","e","a","p">>,
      <<"f","r","e","e">>,
      <<"c","o","s","t">>,
      <<"p","a","y","m","e","n","t">>,
      <<"m","o","n","e","y">> }

RECURSIVE SumSplitCounts(_, _, _)
SumSplitCounts(t, words, k) ==
    IF k > Len(words) THEN 0
    ELSE SplitCount(t, words[k]) + SumSplitCounts(t, words, k + 1)

calculateRiskIndicators(t) ==
    LET cleaned == cleanText(t)
    IN [ highRiskCount   |-> SumSplitCounts(cleaned, highRiskKeywords, 1),
         mediumRiskCount |-> SumSplitCounts(cleaned, mediumRiskKeywords, 1),
         toolCount       |-> SumSplitCounts(cleaned, toolKeywords, 1),
         urgencyScore    |-> IF RegexTest(urgencyRegex, t) THEN 1 ELSE 0,
         commercialScore |-> IF RegexTest(commercialRegex, t) THEN 1 ELSE 0 ]

(***************************************************************************)
(* The regular expressions of extractEntities, whose matches are returned: *)
(* a backtracking matcher.  A node is <<"cls", S>> (one character whose    *)
(* lower case is in S), <<"wb">> (\b), <<"seq", nodes>>, <<"alt", nodes>>  *)
(* or <<"rep", node, min, max>> (greedy, max = -1 for no limit).           *)
(* Ends(n, t, i) lists the positions after a match of n that starts at     *)
(* position i of t, in the order in which backtracking tries them.         *)
(***************************************************************************)
DigitChars == {"0","1","2","3","4","5","6","7","8","9"}

LetterChars == {LowerChars[i] : i \in 1..26}

\* \w
IsWordChar(ch) == LowerChar(ch) \in (LetterChars \cup DigitChars \cup {"_"})

\* \b at position i: exactly one of the characters around it is a word one
AtWordBoundary(t, i) ==
    (i > 1 /\ IsWordChar(t[i - 1])) # (i <= Len(t) /\ IsWordChar(t[i]))

RECURSIVE Ends(_, _, _)
RECURSIVE FlatEnds(_, _, _)
RECURSIVE SeqEnds(_, _, _, _)
RECURSIVE AltEnds(_, _, _, _)
RECURSIVE RepEnds(_, _, _, _, _)
RECURSIVE RepMore(_, _, _, _, _)

Ends(n, t, i) ==
    CASE n[1] = "cls" ->
            IF i <= Len(t) /\ LowerChar(t[i]) \in n[2] THEN <<i + 1>> ELSE <<>>
      [] n[1] = "wb"  -> IF AtWordBoundary(t, i) THEN <<i>> ELSE <<>>
      [] n[1] = "seq" -> SeqEnds(n[2], 1, t, <<i>>)
      [] n[1] = "alt" -> AltEnds(n[2], 1, t, i)
      [] n[1] = "rep" -> RepEnds(n[2], n[3], n[4], t, i)

FlatEnds(n, t, starts) ==
    IF starts = <<>> THEN <<>>
    ELSE Ends(n, t, Head(starts)) \o FlatEnds(n, t, Tail(starts))

SeqEnds(ns, k, t, starts) ==
    IF k > Len(ns) THEN starts
    ELSE SeqEnds(ns, k + 1, t, FlatEnds(ns[k], t, starts))

AltEnds(ns, k, t, i) ==
    IF k > Len(ns) THEN <<>>
    ELSE Ends(ns[k], t, i) \o AltEnds(ns, k + 1, t, i)

RepEnds(n, min, max, t, i) ==
    (IF max = 0 THEN <<>>
     ELSE RepMore(n, min, max, t, SelectSeq(Ends(n, t, i), LAMBDA e : e > i)))
    \o (IF min <= 0 THEN <<i>> ELSE <<>>)

RepMore(n, min, max, t, es) ==
    IF es = <<>> THEN <<>>
    ELSE RepEnds(n, min - 1, IF max > 0 THEN max - 1 ELSE max, t, Head(es))
         \o RepMore(n, min, max, t, Tail(es))

\* String.prototype.match with a g regex: the matches from left to right,
\* each search resuming where the previous match ended
RECURSIVE MatchAll(_, _, _)
MatchAll(re, t, i) ==
    IF i > Len(t) + 1 THEN <<>>
    ELSE LET es == Ends(re, t, i)
         IN IF es = <<>> THEN MatchAll(re, t, i + 1)
            ELSE << SubSeq(t, i, Head(es) - 1) >>
                 \o MatchAll(re, t, IF Head(es) = i THEN i + 1 ELSE Head(es))

\* [...new Set(list)]: the first occurrence of every element, in order
RECURSIVE Unique(_)
Unique(list) ==
    IF list = <<>> THEN <<>>
    ELSE LET init == Unique(SubSeq(list, 1, Len(list) - 1))
             last == list[Len(list)]
         IN IF \E k \in 1..Len(init) : init[k] = last THEN init ELSE Append(init, last)

Cls(S) == <<"cls", S>>

Lit(word) == <<"seq", [k \in 1..Len(word) |-> <<"cls", {word[k]}>>]>>

SeqOf(ns) == <<"seq", ns>>

AltOf(ns) == <<"alt", ns>>

Rep(n, min, max) == <<"rep", n, min, max>>

Opt(n) == <<"rep", n, 0, 1>>

WordsOf(ws) == <<"alt", [k \in 1..Len(ws) |-> Lit(ws[k])]>>

Spaces1 == Rep(Cls({" ", "\t", "\n"}), 1, -1)

\* a pattern whose domain labels have no dot between them to stop at
urlRegex_oneLabel ==
    SeqOf(<< Opt(SeqOf(<<Lit(<<"h","t","t","p">>), Opt(Cls({"s"})), Lit(<<":","/","/">>)>>)),
             Opt(Lit(<<"w","w","w",".">>)),
             Rep(Cls(LetterChars \cup DigitChars \cup {"-"}), 1, -1),
             Cls({"."}),
             Rep(Cls(LetterChars), 2, -1) >>)

\* /(?:https?:\/\/)?(?:www\.)?([a-zA-Z0-9-]+\.[a-zA-Z]{2,}(?:\.[a-zA-Z]{2,})?)/gi
urlRegex ==
    SeqOf(<< Opt(SeqOf(<<Lit(<<"h","t","t","p">>), Opt(Cls({"s"})), Lit(<<":","/","/">>)>>)),
             Opt(Lit(<<"w","w","w",".">>)),
             Rep(Cls(LetterChars \cup DigitChars \cup {"-"}), 1, -1),
             Cls({"."}),
             Rep(Cls(LetterChars), 2, -1),
             Opt(SeqOf(<<Cls({"."}), Rep(Cls(LetterChars), 2, -1)>>)) >>)

\* /\b(?:[0-9]{1,3}\.){3}[0-9]{1,3}\b/g
ipRegex ==
    SeqOf(<< <<"wb">>,
             Rep(SeqOf(<<Rep(Cls(DigitChars), 1, 3), Cls({"."})>>), 3, 3),
             Rep(Cls(DigitChars), 1, 3),
             <<"wb">> >>)

\* /\b(?:monday|...|yesterday|\d{1,2}\/\d{1,2}\/\d{2,4}|\d{1,2}-\d{1,2}-\d{2,4}
\*      |\d{1,2}:\d{2}(?:\s*(?:am|pm|utc|gmt))?)\b/gi
dateRegex ==
    SeqOf(<< <<"wb">>,
             AltOf(<< WordsOf(<< <<"m","o","n","d","a","y">>,
                               <<"t","u","e","s","d","a","y">>,
                               <<"w","e","d","n","e","s","d","a","y">>,
                               <<"t","h","u","r","s","d","a","y">>,
                               <<"f","r","i","d","a","y">>,
                               <<"s","a","t","u","r","d","a","y">>,
                               <<"s","u","n","d","a","y">>,
                               <<"t","o","d","a","y">>,
                               <<"t","o","m","o","r","r","o","w">>,
                               <<"y","e","s","t","e","r","d","a","y">> >>),
                      SeqOf(<<Rep(Cls(DigitChars), 1, 2), Cls({"/"}),
                              Rep(Cls(DigitChars), 1, 2), Cls({"/"}),
                              Rep(Cls(DigitChars), 2, 4)>>),
                      SeqOf(<<Rep(Cls(DigitChars), 1, 2), Cls({"-"}),
                              Rep(Cls(DigitChars), 1, 2), Cls({"-"}),
                              Rep(Cls(DigitChars), 2, 4)>>),
                      SeqOf(<<Rep(Cls(DigitChars), 1, 2), Cls({":"}),
                              Rep(Cls(DigitChars), 2, 2),
                              Opt(SeqOf(<<Rep(Cls({" ", "\t", "\n"}), 0, -1),
                                          WordsOf(<<<<"a","m">>, <<"p","m">>, <<"u","t","c">>, <<"g","m","t">>>>)>>))>>) >>),
             <<"wb">> >>)

\* the eleven patterns of toolPatterns, all with the flags gi
PhraseOf(firsts, seconds) == SeqOf(<<WordsOf(firsts), Spaces1, WordsOf(seconds)>>)

toolPatterns ==
    << PhraseOf(<<<<"r","a","n","s","o","m","w","a","r","e">>>>, <<<<"b","u","i","l","d","e","r">>, <<"k","i","t">>, <<"t","o","o","l">>>>),
       PhraseOf(<<<<"p","h","i","s","h","i","n","g">>>>, <<<<"k","i","t">>, <<"t","o","o","l">>, <<"f","r","a","m","e","w","o","r","k">>>>),
       PhraseOf(<<<<"d","d","o","s">>, <<"d","o","s">>>>, <<<<"t","o","o","l">>, <<"b","o","t">>, <<"b","o","t","n","e","t">>>>),
       PhraseOf(<<<<"e","x","p","l","o","i","t">>, <<"v","u","l","n","e","r","a","b","i","l","i","t","y">>>>, <<<<"k","i","t">>, <<"s","c","a","n","n","e","r">>>>),
       Lit(<<"k","e","y","l","o","g","g","e","r">>),
       Lit(<<"b","o","t","n","e","t">>),
       PhraseOf(<<<<"c","r","y","p","t","o">>>>, <<<<"l","o","c","k","e","r">>>>),
       PhraseOf(<<<<"e","m","a","i","l">>>>, <<<<"t","e","m","p","l","a","t","e","s">>, <<"h","a","r","v","e","s","t","e","r">>>>),
       PhraseOf(<<<<"c","r","e","d","e","n","t","i","a","l">>>>, <<<<"h","a","r","v","e","s","t","e","r">>, <<"s","t","e","a","l","e","r">>>>),
       PhraseOf(<<<<"n","e","t","w","o","r","k">>>>, <<<<"s","c","a","n","n","e","r">>>>),
       SeqOf(<<Lit(<<"s","o","c","i","a","l">>), Spaces1, Lit(<<"e","n","g","i","n","e","e","r","i","n","g">>), Spaces1, Lit(<<"t","o","o","l","k","i","t">>)>>) >>

\* toolPatterns.forEach(pattern => entities.tools.push(...text.match(pattern)))
RECURSIVE ToolMatches(_, _)
ToolMatches(t, k) ==
    IF k > Len(toolPatterns) THEN <<>>
    ELSE MatchAll(toolPatterns[k], t, 1) \o ToolMatches(t, k + 1)

extractEntities(t) ==
    LET urls  == MatchAll(urlRegex, t, 1)
        tools == ToolMatches(t, 1)
    IN [ targets |-> Unique(urls),
         dates   |-> Unique(MatchAll(dateRegex, t, 1)),
         tools   |-> Unique([k \in 1..Len(tools) |-> ToLower(tools[k])]),
         urls    |-> Unique(urls),
         ips     |-> Unique(MatchAll(ipRegex, t, 1)) ]

\* cleaned.split(/\s+/): the maximal runs of characters that are not spaces
RECURSIVE SplitWords(_, _)
SplitWords(t, word) ==
    IF t = <<>> THEN (IF word = <<>> THEN <<>> ELSE <<word>>)
    ELSE IF IsSpace(Head(t))
         THEN (IF word = <<>> THEN <<>> ELSE <<word>>) \o SplitWords(Tail(t), <<>>)
         ELSE SplitWords(Tail(t), Append(word, Head(t)))

\* keyword.toUpperCase()
ToUpper(t) ==
    [i \in 1..Len(t) |->
        IF \E k \in 1..Len(LowerChars) : LowerChars[k] = t[i]
        THEN UpperChars[CHOOSE k \in 1..Len(LowerChars) : LowerChars[k] = t[i]]
        ELSE t[i]]

\* the list extractFeatures calls threatKeywords (lines 61-66)
featureKeywords ==
    << <<"d","d","o","s">>, <<"a","t","t","a","c","k">>, <<"h","a","c","k">>,
       <<"b","r","e","a","c","h">>, <<"e","x","p","l","o","i","t">>,
       <<"m","a","l","w","a","r","e">>, <<"v","i","r","u","s">>,
       <<"r","a","n","s","o","m","w","a","r","e">>,
       <<"p","h","i","s","h","i","n","g">>,
       <<"c","r","e","d","e","n","t","i","a","l","s">>,
       <<"p","a","s","s","w","o","r","d">>, <<"l","e","a","k">>,
       <<"s","e","l","l","i","n","g">>, <<"b","u","y","i","n","g">>,
       <<"u","r","g","e","n","t">>, <<"c","h","e","a","p">>, <<"f","r","e","e">>,
       <<"d","o","w","n","l","o","a","d">>, <<"b","u","i","l","d","e","r">>,
       <<"k","i","t">>, <<"t","o","o","l">>, <<"b","o","t","n","e","t">>,
       <<"p","a","y","l","o","a","d">>, <<"e","x","p","l","o","i","t">> >>

extractFeatures(t) ==
    LET cleaned  == cleanText(t)
        words    == SelectSeq(SplitWords(cleaned, <<>>), LAMBDA w : Len(w) > 2)
        bigrams  == [i \in 1..(Len(words) - 1) |-> words[i] \o <<"_">> \o words[i + 1]]
        found    == SelectSeq(featureKeywords, LAMBDA kw : Includes(cleaned, kw))
        specials == [k \in 1..Len(found) |->
                        <<"T","H","R","E","A","T","_">> \o ToUpper(found[k])]
    IN words \o bigrams \o specials

processText(t) ==
    [ cleaned  |-> cleanText(t),
      features |-> extractFeatures(t),
      entities |-> extractEntities(t) ]

\* processed.features.slice(0, 10)
TopFeatures(features) == SubSeq(features, 1, IF Len(features) < 10 THEN Len(features) ELSE 10)

\* the entities of the prediction batchPredict pushes for a rejected item
NoEntities ==
    [ targets |-> <<>>, dates |-> <<>>, tools |-> <<>>, urls |-> <<>>, ips |-> <<>> ]

(***************************************************************************)
(* threatDetector.ts: the pure part                                        *)
(***************************************************************************)
Min(a, b) == IF a <= b THEN a ELSE b

Max(a, b) == IF a >= b THEN a ELSE b

Abs(a) == IF a >= 0 THEN a ELSE 0 - a

\* calculateRiskLevel with > in place of >= at 0.7
calculateRiskLevel_strict(riskScore) ==
    IF riskScore > 70 THEN "high"
    ELSE IF riskScore >= 40 THEN "medium"
    ELSE "low"

calculateRiskLevel(riskScore) ==
    IF riskScore >= 70 THEN "high"
    ELSE IF riskScore >= 40 THEN "medium"
    ELSE "low"

ddosPattern ==
    { <<"d","d","o","s">>,
      <<"d","o","s","WS+","a","t","t","a","c","k">>,
      <<"d","e","n","i","a","l","ANY","o","f","ANY","s","e","r","v","i","c","e">> }

phishingPattern ==
    { <<"p","h","i","s","h","i","n","g">>,
      <<"p","h","i","s","h">>,
      <<"c","r","e","d","e","n","t","i","a","l","ANY","h","a","r","v","e","s","t">>,
      <<"f","a","k","e","ANY","l","o","g","i","n">> }

\* a pattern without its first alternative, ransom
ransomwarePattern_noRansom ==
    { <<"e","n","c","r","y","p","t">>,
      <<"c","r","y","p","t","o","ANY","l","o","c","k">>,
      <<"f","i","l","e","ANY","l","o","c","k">> }

ransomwarePattern ==
    { <<"r","a","n","s","o","m">>,
      <<"e","n","c","r","y","p","t">>,
      <<"c","r","y","p","t","o","ANY","l","o","c","k">>,
      <<"f","i","l","e","ANY","l","o","c","k">> }

\* clauses with one more rule, a boost for medium-risk keywords
enhanceClauses_medium(t, ind) ==
    (IF ind.highRiskCount > 0
        THEN << <<"High-risk keywords", Min(ind.highRiskCount * 20, 40)>> >> ELSE <<>>)
    \o (IF ind.mediumRiskCount > 0 THEN << <<"Medium-risk keywords", 10>> >> ELSE <<>>)
    \o (IF ind.toolCount > 0
        THEN << <<"Cybersecurity tools", Min(ind.toolCount * 15, 30)>> >> ELSE <<>>)
    \o (IF ind.commercialScore > 0 THEN << <<"Commercial language", 25>> >> ELSE <<>>)
    \o (IF ind.urgencyScore > 0 THEN << <<"Urgency indicators", 15>> >> ELSE <<>>)
    \o (IF RegexTest(ddosPattern, t) THEN << <<"DDoS attack pattern", 30>> >> ELSE <<>>)
    \o (IF RegexTest(phishingPattern, t) THEN << <<"Phishing pattern", 30>> >> ELSE <<>>)
    \o (IF RegexTest(ransomwarePattern, t) THEN << <<"Ransomware pattern", 30>> >> ELSE <<>>)

\* the clauses of explanationParts, in the order the rules are evaluated;
\* a clause is <<rule, boost>>
enhanceClauses(t, ind) ==
    (IF ind.highRiskCount > 0
        THEN << <<"High-risk keywords", Min(ind.highRiskCount * 20, 40)>> >> ELSE <<>>)
    \o (IF ind.toolCount > 0
        THEN << <<"Cybersecurity tools", Min(ind.toolCount * 15, 30)>> >> ELSE <<>>)
    \o (IF ind.commercialScore > 0 THEN << <<"Commercial language", 25>> >> ELSE <<>>)
    \o (IF ind.urgencyScore > 0 THEN << <<"Urgency indicators", 15>> >> ELSE <<>>)
    \o (IF RegexTest(ddosPattern, t) THEN << <<"DDoS attack pattern", 30>> >> ELSE <<>>)
    \o (IF RegexTest(phishingPattern, t) THEN << <<"Phishing pattern", 30>> >> ELSE <<>>)
    \o (IF RegexTest(ransomwarePattern, t) THEN << <<"Ransomware pattern", 30>> >> ELSE <<>>)

RECURSIVE SumBoosts(_)
SumBoosts(clauses) ==
    IF clauses = <<>> THEN 0 ELSE Head(clauses)[2] + SumBoosts(Tail(clauses))

\* enhanceWithRules without line 223, the clamp of riskScore
enhanceWithRules_noClamp(t, baseThreatProbability, ind) ==
    LET parts == enhanceClauses(t, ind)
        raw   == baseThreatProbability + SumBoosts(parts)
        conf  == Abs(baseThreatProbability - 50) * 2
    IN [ riskScore   |-> raw,
         confidence  |-> Min(conf + Len(parts) * 10, 95),
         explanation |-> IF Len(parts) > 0
                         THEN << <<"Model prediction enhanced by rules", 0>> >> \o parts
                         ELSE << <<"Base model prediction", baseThreatProbability>> >> ]

enhanceWithRules(t, baseThreatProbability, ind) ==
    LET parts == enhanceClauses(t, ind)
        raw   == baseThreatProbability + SumBoosts(parts)
        conf  == Abs(baseThreatProbability - 50) * 2
    IN [ riskScore   |-> Min(Max(raw, 0), 100),
         confidence  |-> Min(conf + Len(parts) * 10, 95),
         explanation |-> IF Len(parts) > 0
                         THEN << <<"Model prediction enhanced by rules", 0>> >> \o parts
                         ELSE << <<"Base model prediction", baseThreatProbability>> >> ]

\* a list that also counts the words "plan" and "bank"
threatKeywords_wide ==
    << <<"d","d","o","s">>, <<"a","t","t","a","c","k">>, <<"h","a","c","k">>, <<"p","l","a","n">>, <<"b","a","n","k">> >>

threatKeywords ==
    << <<"d","d","o","s">>,
       <<"a","t","t","a","c","k">>,
       <<"h","a","c","k">>,
       <<"r","a","n","s","o","m","w","a","r","e">>,
       <<"p","h","i","s","h","i","n","g">>,
       <<"e","x","p","l","o","i","t">>,
       <<"m","a","l","w","a","r","e">>,
       <<"b","o","t","n","e","t">>,
       <<"b","r","e","a","c","h">>,
       <<"l","e","a","k">>,
       <<"c","r","e","d","e","n","t","i","a","l","s">>,
       <<"p","a","y","l","o","a","d">> >>

commercialKeywords ==
    << <<"s","e","l","l","i","n","g">>,
       <<"b","u","y","i","n","g">>,
       <<"c","h","e","a","p">>,
       <<"f","r","e","e">>,
       <<"p","r","i","c","e">> >>

\* a list that also takes a weekday for urgency
urgencyKeywords_weekday ==
    << <<"u","r","g","e","n","t">>, <<"n","o","w">>, <<"t","o","d","a","y">>, <<"f","r","i","d","a","y">> >>

urgencyKeywords ==
    << <<"u","r","g","e","n","t">>,
       <<"n","o","w">>,
       <<"t","o","d","a","y">>,
       <<"a","s","a","p">>,
       <<"i","m","m","e","d","i","a","t","e">> >>

\* keywords.filter(keyword => text.toLowerCase().includes(keyword))
FoundKeywords(t, words) ==
    SelectSeq(words, LAMBDA kw : Includes(ToLower(t), kw))

\* a predictor that adds the commercial boost once per keyword found
fallbackPrediction_perKeyword(t) ==
    LET foundThreats    == FoundKeywords(t, threatKeywords)
        foundCommercial == FoundKeywords(t, commercialKeywords)
        hasUrgency      == \E k \in 1..Len(urgencyKeywords) :
                               Includes(ToLower(t), urgencyKeywords[k])
        raw == 10 + Len(foundThreats) * 20
                  + Len(foundCommercial) * 25
                  + (IF hasUrgency THEN 15 ELSE 0)
        riskScore == Min(raw, 100)
    IN [ label       |-> IF riskScore > 50 THEN "threat" ELSE "benign",
         confidence  |-> Min(Len(foundThreats) * 20 + 30, 80),
         riskScore   |-> riskScore,
         riskLevel   |-> calculateRiskLevel(riskScore),
         text        |-> t,
         entities    |-> processText(t).entities,
         features    |-> TopFeatures(processText(t).features),
         explanation |-> << <<"Using rule-based fallback", 0>> >>
                         \o (IF Len(foundThreats) > 0
                             THEN << <<"Threat keywords", Len(foundThreats)>> >> ELSE <<>>)
                         \o (IF Len(foundCommercial) > 0
                             THEN << <<"Commercial language detected", 0>> >> ELSE <<>>)
                         \o (IF hasUrgency
                             THEN << <<"Urgency indicators found", 0>> >> ELSE <<>>) ]

fallbackPrediction(t) ==
    LET foundThreats    == FoundKeywords(t, threatKeywords)
        foundCommercial == FoundKeywords(t, commercialKeywords)
        hasUrgency      == \E k \in 1..Len(urgencyKeywords) :
                               Includes(ToLower(t), urgencyKeywords[k])
        raw == 10 + Len(foundThreats) * 20
                  + (IF Len(foundCommercial) > 0 THEN 25 ELSE 0)
                  + (IF hasUrgency THEN 15 ELSE 0)
        riskScore == Min(raw, 100)
    IN [ label       |-> IF riskScore > 50 THEN "threat" ELSE "benign",
         confidence  |-> Min(Len(foundThreats) * 20 + 30, 80),
         riskScore   |-> riskScore,
         riskLevel   |-> calculateRiskLevel(riskScore),
         text        |-> t,
         entities    |-> processText(t).entities,
         features    |-> TopFeatures(processText(t).features),
         explanation |-> << <<"Using rule-based fallback", 0>> >>
                         \o (IF Len(foundThreats) > 0
                             THEN << <<"Threat keywords", Len(foundThreats)>> >> ELSE <<>>)
                         \o (IF Len(foundCommercial) > 0
                             THEN << <<"Commercial language detected", 0>> >> ELSE <<>>)
                         \o (IF hasUrgency
                             THEN << <<"Urgency indicators found", 0>> >> ELSE <<>>) ]

(***************************************************************************)
(* Bounds and inputs                                                       *)
(***************************************************************************)
\* longest list handed to batchPredict
MaxBatchLen == 3

\* two components whose calls may overlap on the event loop: "a" calls
\* predict and initialize; "b" calls batchPredict, or predict from the
\* warm start
Callers == {"a", "b"}

PredictCallers == {"a"}

InitCallers == {"a"}

BatchCallers == {"b"}

\* if (this.modelCache.size > 100)
MaxCacheSize == 100

\* a value that is not a string (null, undefined): text.toLowerCase() throws
NullLike == <<"NULL">>

\* the text field of a prediction that was not computed from a text
NoText == <<"NONE">>

\* "DDoS attack: hack leak, FREE"
T_Attack ==
    <<"D","D","o","S"," ","a","t","t","a","c","k",":"," ","h","a","c","k"," ","l","e","a","k",","," ","F","R","E","E">>

\* the same text up to letter case and surrounding whitespace
T_AttackPadded ==
    <<" ","d","d","o","s"," ","a","t","t","a","c","k",":"," ","h","a","c","k"," ","l","e","a","k",","," ","f","r","e","e","\n">>

\* "Plan DDoS on examplebank.com this Friday at 3 AM UTC"
T_Plan ==
    <<"P","l","a","n"," ","D","D","o","S"," ","o","n"," ","e","x","a","m","p","l","e","b","a","n","k",".","c","o","m"," ","t","h","i","s"," ","F","r","i","d","a","y"," ","a","t"," ","3"," ","A","M"," ","U","T","C">>

\* "Who wants to buy credentials for mail.example.org? cheap"
T_Creds ==
    <<"W","h","o"," ","w","a","n","t","s"," ","t","o"," ","b","u","y"," ","c","r","e","d","e","n","t","i","a","l","s"," ","f","o","r"," ","m","a","i","l",".","e","x","a","m","p","l","e",".","o","r","g","?"," ","c","h","e","a","p">>

T_ddos == <<"d","d","o","s">>

T_attack == <<"a","t","t","a","c","k">>

T_hello == <<"h","e","l","l","o">>

T_ransomware == <<"r","a","n","s","o","m","w","a","r","e">>

T_newRansomware ==
    <<"N","e","w"," ","R","a","n","s","o","m","w","a","r","e"," ","o","u","t">>

T_phishRansom == <<"p","h","i","s","h"," ","r","a","n","s","o","m">>

T_allThree ==
    <<"d","d","o","s"," ","p","h","i","s","h"," ","e","n","c","r","y","p","t">>

T_kept ==
    <<"W","s"," ","\\","w","_","s",".","!","?","@"," "," ","\\">>

T_dash == <<"a","-","b"," ","c">>

T_buyNow == <<"b","u","y"," ","n","o","w">>

T_bargain ==
    <<"c","h","e","a","p"," ","F","R","E","E"," ","p","r","i","c","e",","," ","b","u","y","i","n","g"," ","n","o","w"," ","t","o","d","a","y"," ","a","s","a","p">>

T_breach ==
    <<"D","D","o","S"," ","d","d","o","s"," ","a","t","t","a","c","k"," ","h","a","c","k"," ","l","e","a","k"," ","b","r","e","a","c","h">>

T_urgentLeak ==
    <<"u","r","g","e","n","t",":"," ","l","e","a","k"," ","o","f"," ","p","a","y","l","o","a","d">>

T_sellingMalware ==
    <<"S","e","l","l","i","n","g"," ","m","a","l","w","a","r","e"," ","a","n","d"," ","b","o","t","n","e","t">>

\* the texts the Fallback Predictor is applied to
FallbackTexts ==
    {<<>>, T_hello, T_ddos, T_Attack, T_Plan, T_Creds, T_buyNow,
     T_bargain, T_breach, T_urgentLeak, T_sellingMalware}

\* the inputs the pure functions are applied to
MaxCount == 3

ProbeProbabilities == {0, 5, 45, 50, 70, 100}

ProbeIndicators ==
    [ highRiskCount : 0..MaxCount, mediumRiskCount : 0..MaxCount,
      toolCount : 0..MaxCount, urgencyScore : {0, 1}, commercialScore : {0, 1} ]

EnhanceTexts ==
    {T_hello, T_ddos, T_ransomware, T_newRansomware, T_phishRansom, T_allThree}

ProbeTexts ==
    {<<>>, T_ddos, T_attack, T_hello, T_ransomware, T_kept, T_dash,
     T_Attack, T_Plan, T_Creds}

Digits == <<"0","1","2","3","4","5","6","7","8","9">>

\* n-th text of a family of texts with pairwise different cache keys
Filler(n) == <<Digits[(n \div 10) + 1], Digits[(n % 10) + 1]>>

PredictTexts == {T_Attack}

\* texts predicted from the warm start; Filler(1) is the oldest cached key
WarmTexts == {T_Attack, T_AttackPadded, T_buyNow, Filler(1)}

\* the lists handed to batchPredict: the runs of BatchScript of at most
\* MaxBatchLen elements
BatchScript == << <<>>, NullLike, T_Attack, T_AttackPadded >>

BatchInputs ==
    {SubSeq(BatchScript, i, j) :
        i \in 1..(Len(BatchScript) + 1), j \in 0..Len(BatchScript)}
    \cap UNION {[1..n -> {BatchScript[k] : k \in 1..Len(BatchScript)}] : n \in 0..MaxBatchLen}

\* what the external classifier answers: it throws (ClassifierThrow), or
\* returns a list that is empty or starts with {label, score}
Responses ==
    {[kind |-> "empty", label |-> "", score |-> 0]}
    \cup {[kind |-> "result", label |-> l, score |-> s] :
              l \in {"NEGATIVE", "POSITIVE"}, s \in {0, 30, 100}}

\* the answers given from the warm start
WarmResponses == {r \in Responses : r.kind = "result" /\ r.score = 100}

(***************************************************************************)
(* Map<string, ThreatPrediction>: a sequence of entries in insertion       *)
(* order.  stamp is history: the number of the insertion that created the  *)
(* entry.                                                                  *)
(***************************************************************************)
CacheKeys(cache) == {cache[i].key : i \in 1..Len(cache)}

CacheHas(cache, k) == k \in CacheKeys(cache)

\* a lookup that returns the oldest entry whatever the key
CacheGet_oldest(cache, k) == cache[1].value

CacheGet(cache, k) == cache[CHOOSE i \in 1..Len(cache) : cache[i].key = k].value

\* Map.prototype.set: a present key keeps its place, a new key goes last
CacheSet(cache, k, v, n) ==
    IF CacheHas(cache, k)
    THEN [i \in 1..Len(cache) |->
             IF cache[i].key = k THEN [cache[i] EXCEPT !.value = v] ELSE cache[i]]
    ELSE Append(cache, [key |-> k, value |-> v, stamp |-> n])

\* CacheEvict that never deletes
CacheEvict_never(cache) == cache

\* CacheEvict that deletes the newest entry
CacheEvict_newest(cache) ==
    IF Len(cache) > MaxCacheSize THEN SubSeq(cache, 1, Len(cache) - 1) ELSE cache

\* if (size > 100) delete(keys().next().value)
CacheEvict(cache) ==
    IF Len(cache) > MaxCacheSize THEN Tail(cache) ELSE cache

\* a key that does not tell texts apart
CacheKey_collide(t) == <<>>

\* const cacheKey = text.toLowerCase().trim()
CacheKey(t) == Trim(ToLower(t))

(***************************************************************************)
(* predict: from the classifier's answer to the prediction                 *)
(***************************************************************************)
ThreatProbability(r) ==
    IF r.kind = "result"
    THEN LET baseConfidence == IF r.score # 0 THEN r.score ELSE 50
         IN IF r.label = "NEGATIVE" THEN baseConfidence ELSE 100 - baseConfidence
    ELSE 50

EnhancedResult(t, r) ==
    LET e == enhanceWithRules(t, ThreatProbability(r), calculateRiskIndicators(t))
    IN [ label       |-> IF e.riskScore > 50 THEN "threat" ELSE "benign",
         confidence  |-> e.confidence,
         riskScore   |-> e.riskScore,
         riskLevel   |-> calculateRiskLevel(e.riskScore),
         text        |-> t,
         entities    |-> processText(t).entities,
         explanation |-> e.explanation,
         features    |-> TopFeatures(processText(t).features) ]

\* a default that passes the rejected item off as a threat
SafeDefault_alarm ==
    [ label       |-> "threat",
      confidence  |-> 10,
      riskScore   |-> 100,
      riskLevel   |-> "high",
      text        |-> NoText,
      entities    |-> NoEntities,
      explanation |-> << <<"Error in prediction - defaulting to benign", 0>> >>,
      features    |-> <<>> ]

\* the prediction batchPredict pushes when predict rejects
SafeDefault ==
    [ label       |-> "benign",
      confidence  |-> 10,
      riskScore   |-> 10,
      riskLevel   |-> "low",
      text        |-> NoText,
      entities    |-> NoEntities,
      explanation |-> << <<"Error in prediction - defaulting to benign", 0>> >>,
      features    |-> <<>> ]

\* long batches: every text is in the cache of the warm start
MaxRows == 12

CachedBatches == {[i \in 1..n |-> Filler(1)] : n \in 0..MaxRows}

\* uploaded rows: cached texts, with an empty row in one place or in none
UploadedRows ==
    {[i \in 1..n |-> IF i = e THEN <<" ">> ELSE Filler(1)] :
        n \in 0..MaxRows, e \in {0, 1, 2}}

\* two spellings of one text, which have the same cache key
T_Site == <<"G","o"," ","E","v","i","l",".","i","o">>

T_site == <<"g","o"," ","e","v","i","l",".","i","o">>

CaseTexts == {T_Site, T_site}

\* the texts handed to a detector whose classifier throws
ThrowTexts == {T_Plan, T_Attack, T_buyNow}

\* every text the callers hand in; the tables below hold, for each of them,
\* the values the operators above compute, evaluated once
AllTexts ==
    (PredictTexts \cup WarmTexts \cup ThrowTexts \cup CaseTexts
     \cup {BatchScript[k] : k \in 1..Len(BatchScript)})
    \ {NullLike}

KeyOf == [t \in AllTexts |-> CacheKey(t)]

EnhancedOf == [t \in AllTexts |-> [r \in Responses |-> EnhancedResult(t, r)]]

FallbackOf == [t \in AllTexts |-> fallbackPrediction(t)]

NoPrediction ==
    [ label |-> "", confidence |-> 0, riskScore |-> 0, riskLevel |-> "",
      text |-> NoText, entities |-> NoEntities, explanation |-> <<>>,
      features |-> <<>> ]

NoOutcome == [kind |-> "none", pred |-> NoPrediction, error |-> ""]

Returned(p) == [kind |-> "returned", pred |-> p, error |-> ""]

Rejected(e) == [kind |-> "rejected", pred |-> NoPrediction, error |-> e]

(***************************************************************************)
(* State                                                                   *)
(***************************************************************************)
VARIABLES
    classifier,   \* "null" or "pipeline"
    isLoading,
    isReady,
    modelCache,
    insertions,   \* history: number of entries ever created in modelCache
    calls,        \* per caller: the call in progress and where it is suspended
    probe         \* a pure function of the two files applied to an input

vars == <<classifier, isLoading, isReady, modelCache, insertions, calls, probe>>

\* op: "none", "predict", "batch", "initialize", "process" (the loop of
\*     BatchProcessor.handleBatchProcess over the uploaded rows)
\* pc: "idle"; "loadGPU", "loadCPU" (initialize awaits pipeline);
\*     "initSettled" (predict awaits the settled promise of initialize);
\*     "awaitClassifier"; "itemSettled" (batchPredict awaits the settled
\*     promise of predict); "timer" (handleBatchProcess awaits setTimeout);
\*     "done" (the promise of the call is settled)
\* history of the call in progress:
\*   sawLoading  initialize returned at once because isLoading was set
\*   path        how predict settled: "hit" (cache), "enhanced" (classifier
\*               answered), "fallback" (classifier threw), "rejected"
\*   paths       batchPredict: the path of every item processed so far
\*   index       handleBatchProcess: the row at hand (the loop variable i + 1)
\*   yields      how often the call waited for a timer of the event loop
IdleCall ==
    [ op |-> "none", pc |-> "idle", text |-> NoText, initFailed |-> FALSE,
      outcome |-> NoOutcome, messages |-> <<>>, results |-> <<>>,
      sawLoading |-> FALSE, path |-> "none", paths |-> <<>>,
      index |-> 0, yields |-> 0 ]

\* no function is being applied
NoIndicators ==
    [ highRiskCount |-> 0, mediumRiskCount |-> 0, toolCount |-> 0,
      urgencyScore |-> 0, commercialScore |-> 0 ]

NoResponse == [kind |-> "none", label |-> "", score |-> 0]

NoProbe ==
    [ fn |-> "none", text |-> NoText, p |-> 0, ind |-> NoIndicators,
      response |-> NoResponse, out |-> <<>> ]

\* the warm start: MaxCacheSize - 1 predictions were made and cached
WarmResponse == [kind |-> "result", label |-> "POSITIVE", score |-> 100]

WarmCache ==
    [n \in 1..(MaxCacheSize - 1) |->
        [key |-> CacheKey(Filler(n)), value |-> EnhancedResult(Filler(n), WarmResponse),
         stamp |-> n]]

InitFresh ==
    /\ classifier = "null"
    /\ isLoading = FALSE
    /\ isReady = FALSE
    /\ modelCache = <<>>
    /\ insertions = 0
    /\ calls = [c \in Callers |-> IdleCall]
    /\ probe = NoProbe

InitWarm ==
    /\ classifier = "pipeline"
    /\ isLoading = FALSE
    /\ isReady = TRUE
    /\ modelCache = WarmCache
    /\ insertions = MaxCacheSize - 1
    /\ calls = [c \in Callers |-> IdleCall]
    /\ probe = NoProbe

Init == InitFresh

(***************************************************************************)
(* predict, lines 88-114: the synchronous run up to the first await        *)
(***************************************************************************)
\* the promise of predict settles: the caller of predict, or the loop of
\* batchPredict or of handleBatchProcess awaiting it, goes on in a later turn
Settle(rec, o, path) ==
    [rec EXCEPT !.pc = IF rec.op \in {"batch", "process"} THEN "itemSettled" ELSE "done",
                !.outcome = o, !.path = path]

\* a catch that rethrows
CatchResult_rethrow(t) == Rejected("Prediction error")

\* lines 157-161: the catch around the classifier call
CatchResult(t) == Returned(FallbackOf[t])

\* lines 102-114: the null check, then the classifier is invoked
InvokeClassifier(rec) ==
    IF classifier = "null"
    THEN Settle(rec, Rejected("Model not initialized"), "rejected")
    ELSE [rec EXCEPT !.pc = "awaitClassifier"]

\* a guard that does not look at isLoading
StartsLoad_ignoresLoading == ~isReady

\* initialize starts a load exactly when neither flag is set
StartsLoad == ~(isReady \/ isLoading)

\* does predict(t) reach initialize and does initialize start a load
PredictStartsLoad(t) ==
    /\ t # NullLike
    /\ ~CacheHas(modelCache, KeyOf[t])
    /\ ~isReady
    /\ StartsLoad

EnterPredict(rec0, t) ==
    LET rec == [rec0 EXCEPT !.text = t, !.initFailed = FALSE, !.outcome = NoOutcome,
                            !.sawLoading = FALSE, !.path = "none"]
    IN IF t = NullLike
       THEN Settle(rec, Rejected("TypeError"), "rejected")
       ELSE IF CacheHas(modelCache, KeyOf[t])
       THEN Settle(rec, Returned(CacheGet(modelCache, KeyOf[t])), "hit")
       ELSE IF ~isReady
       THEN IF StartsLoad
            THEN [rec EXCEPT !.pc = "loadGPU"]
            ELSE [rec EXCEPT !.pc = "initSettled", !.sawLoading = isLoading]
       ELSE InvokeClassifier(rec)

(***************************************************************************)
(* Actions                                                                 *)
(***************************************************************************)
\* a caller calls predict(t)
Predict(c, t) ==
    /\ calls[c].pc = "idle"
    /\ calls' = [calls EXCEPT ![c] = EnterPredict([IdleCall EXCEPT !.op = "predict"], t)]
    /\ isLoading' = (isLoading \/ PredictStartsLoad(t))
    /\ UNCHANGED <<classifier, isReady, modelCache, insertions, probe>>

\* a caller calls initialize() itself
Initialize(c) ==
    /\ calls[c].pc = "idle"
    /\ calls' = [calls EXCEPT ![c] =
                    IF StartsLoad
                    THEN [IdleCall EXCEPT !.op = "initialize", !.pc = "loadGPU"]
                    ELSE [IdleCall EXCEPT !.op = "initialize", !.pc = "done",
                                          !.outcome = Returned(NoPrediction),
                                          !.sawLoading = isLoading]]
    /\ isLoading' = (isLoading \/ StartsLoad)
    /\ UNCHANGED <<classifier, isReady, modelCache, insertions, probe>>

\* an initialize whose settling never reaches the call that awaits it
InitSettled_lost(rec, failed) == rec

\* initialize settles: its own caller is done, predict awaiting it goes on
InitSettled(rec, failed) ==
    IF rec.op = "initialize"
    THEN [rec EXCEPT !.pc = "done",
                     !.outcome = IF failed THEN Rejected("cpuError")
                                 ELSE Returned(NoPrediction)]
    ELSE [rec EXCEPT !.pc = "initSettled", !.initFailed = failed]

\* lines 54-64 and 80-82: the WebGPU pipeline resolves
LoadGPUResolve(c) ==
    /\ calls[c].pc = "loadGPU"
    /\ classifier' = "pipeline"
    /\ isReady' = TRUE
    /\ isLoading' = FALSE
    /\ calls' = [calls EXCEPT ![c] = InitSettled(calls[c], FALSE)]
    /\ UNCHANGED <<modelCache, insertions, probe>>

\* lines 65-73: the WebGPU pipeline rejects, the CPU pipeline is requested
LoadGPUReject(c) ==
    /\ calls[c].pc = "loadGPU"
    /\ calls' = [calls EXCEPT ![c].pc = "loadCPU"]
    /\ UNCHANGED <<classifier, isLoading, isReady, modelCache, insertions, probe>>

\* a CPU load whose success leaves isLoading set
LoadCPUResolve_noFinally(c) ==
    /\ calls[c].pc = "loadCPU"
    /\ classifier' = "pipeline"
    /\ isReady' = TRUE
    /\ calls' = [calls EXCEPT ![c] = InitSettled(calls[c], FALSE)]
    /\ UNCHANGED <<isLoading, modelCache, insertions, probe>>

\* lines 70-75 and 80-82: the CPU pipeline resolves
LoadCPUResolve(c) ==
    /\ calls[c].pc = "loadCPU"
    /\ classifier' = "pipeline"
    /\ isReady' = TRUE
    /\ isLoading' = FALSE
    /\ calls' = [calls EXCEPT ![c] = InitSettled(calls[c], FALSE)]
    /\ UNCHANGED <<modelCache, insertions, probe>>

\* a CPU load whose failure leaves isLoading set
LoadCPUReject_noFinally(c) ==
    /\ calls[c].pc = "loadCPU"
    /\ calls' = [calls EXCEPT ![c] = InitSettled(calls[c], TRUE)]
    /\ UNCHANGED <<classifier, isLoading, isReady, modelCache, insertions, probe>>

\* lines 76-82: the CPU pipeline rejects, initialize rethrows
LoadCPUReject(c) ==
    /\ calls[c].pc = "loadCPU"
    /\ isLoading' = FALSE
    /\ calls' = [calls EXCEPT ![c] = InitSettled(calls[c], TRUE)]
    /\ UNCHANGED <<classifier, isReady, modelCache, insertions, probe>>

\* predict going on after an initialize that swallows the load error
AfterInitialize_swallow(rec) == InvokeClassifier(rec)

\* lines 99-114: predict resumes after await this.initialize()
AfterInitialize(rec) ==
    IF rec.initFailed
    THEN Settle(rec, Rejected("cpuError"), "rejected")
    ELSE InvokeClassifier(rec)

PredictResume(c) ==
    /\ calls[c].pc = "initSettled"
    /\ calls' = [calls EXCEPT ![c] = AfterInitialize(calls[c])]
    /\ UNCHANGED <<classifier, isLoading, isReady, modelCache, insertions, probe>>

\* predict without line 148
StoreResult_skip(cache, k, v, n) == cache

\* lines 147-154: the cache after the result is stored
StoreResult(cache, k, v, n) == CacheEvict(CacheSet(cache, k, v, n))

\* lines 114-156: the classifier returns r
ClassifierReturn(c, r) ==
    /\ calls[c].pc = "awaitClassifier"
    /\ LET t      == calls[c].text
           k      == KeyOf[t]
           result == EnhancedOf[t][r]
           isNew  == ~CacheHas(modelCache, k)
       IN /\ modelCache' = StoreResult(modelCache, k, result, insertions + 1)
          /\ insertions' = IF isNew THEN insertions + 1 ELSE insertions
          /\ calls' = [calls EXCEPT ![c] = Settle(calls[c], Returned(result), "enhanced")]
    /\ UNCHANGED <<classifier, isLoading, isReady, probe>>

\* a catch that stores the fallback prediction like a result
ClassifierThrow_caching(c) ==
    /\ calls[c].pc = "awaitClassifier"
    /\ LET t     == calls[c].text
           isNew == ~CacheHas(modelCache, KeyOf[t])
       IN /\ modelCache' = StoreResult(modelCache, KeyOf[t], FallbackOf[t], insertions + 1)
          /\ insertions' = IF isNew THEN insertions + 1 ELSE insertions
          /\ calls' = [calls EXCEPT ![c] = Settle(calls[c], CatchResult(t), "fallback")]
    /\ UNCHANGED <<classifier, isLoading, isReady, probe>>

\* lines 157-162: the classifier throws
ClassifierThrow(c) ==
    /\ calls[c].pc = "awaitClassifier"
    /\ calls' = [calls EXCEPT ![c] = Settle(calls[c], CatchResult(calls[c].text), "fallback")]
    /\ UNCHANGED <<classifier, isLoading, isReady, modelCache, insertions, probe>>

\* lines 314-316 and the first turn of the loop
BatchPredict(c, msgs) ==
    /\ calls[c].pc = "idle"
    /\ LET rec == [IdleCall EXCEPT !.op = "batch", !.messages = msgs]
       IN IF msgs = <<>>
          THEN /\ calls' = [calls EXCEPT ![c] = [rec EXCEPT !.pc = "done"]]
               /\ UNCHANGED isLoading
          ELSE /\ calls' = [calls EXCEPT ![c] = EnterPredict(rec, msgs[1])]
               /\ isLoading' = (isLoading \/ PredictStartsLoad(msgs[1]))
    /\ UNCHANGED <<classifier, isReady, modelCache, insertions, probe>>

\* a loop without the catch of lines 321-334
BatchItem_unchecked(o) == o.pred

\* lines 318-334: what the loop pushes for a settled predict
BatchItem(o) == IF o.kind = "returned" THEN o.pred ELSE SafeDefault

\* lines 317-337: the loop resumes after await this.predict(message)
BatchContinue(c) ==
    /\ calls[c].op = "batch"
    /\ calls[c].pc = "itemSettled"
    /\ LET rec  == [calls[c] EXCEPT !.results = Append(@, BatchItem(calls[c].outcome)),
                                    !.paths = Append(@, calls[c].path)]
           next == Len(rec.results) + 1
       IN IF next > Len(rec.messages)
          THEN /\ calls' = [calls EXCEPT ![c] =
                               [rec EXCEPT !.pc = "done", !.outcome = NoOutcome,
                                           !.text = NoText, !.path = "none",
                                           !.sawLoading = FALSE]]
               /\ UNCHANGED isLoading
          ELSE /\ calls' = [calls EXCEPT ![c] = EnterPredict(rec, rec.messages[next])]
               /\ isLoading' = (isLoading \/ PredictStartsLoad(rec.messages[next]))
    /\ UNCHANGED <<classifier, isReady, modelCache, insertions, probe>>

(***************************************************************************)
(* BatchProcessor.handleBatchProcess: the loop of the user interface over  *)
(* the uploaded rows, which calls predict row by row                       *)
(***************************************************************************)
\* the first row from k on that is not skipped: if (!text.trim()) continue
RECURSIVE NextRow(_, _)
NextRow(rows, k) ==
    IF k > Len(rows) THEN k
    ELSE IF Trim(rows[k]) = <<>> THEN NextRow(rows, k + 1)
    ELSE k

\* the prediction pushed for a row whose predict rejected
ProcessingError ==
    [ label       |-> "benign",
      confidence  |-> 10,
      riskScore   |-> 10,
      riskLevel   |-> "low",
      text        |-> NoText,
      entities    |-> NoEntities,
      explanation |-> << <<"Processing error", 0>> >>,
      features    |-> <<>> ]

\* the loop goes on with row k, or ends
ProcessFrom(rec, k) ==
    LET next == NextRow(rec.messages, k)
    IN IF next > Len(rec.messages)
       THEN [rec EXCEPT !.pc = "done", !.outcome = NoOutcome, !.text = NoText,
                        !.path = "none", !.sawLoading = FALSE, !.index = next]
       ELSE EnterPredict([rec EXCEPT !.index = next], rec.messages[next])

ProcessStartsLoad(rec, k) ==
    LET next == NextRow(rec.messages, k)
    IN next <= Len(rec.messages) /\ PredictStartsLoad(rec.messages[next])

\* lines 91-116: handleBatchProcess is called with the uploaded rows
HandleBatchProcess(c, rows) ==
    /\ calls[c].pc = "idle"
    /\ LET rec == [IdleCall EXCEPT !.op = "process", !.messages = rows]
       IN /\ calls' = [calls EXCEPT ![c] = ProcessFrom(rec, 1)]
          /\ isLoading' = (isLoading \/ ProcessStartsLoad(rec, 1))
    /\ UNCHANGED <<classifier, isReady, modelCache, insertions, probe>>

\* line 150: if (i % 10 === 0), i counting the rows from 0
TimerDue(i) == i % 10 = 0

\* lines 115-152: the loop resumes after await threatDetector.predict(text)
ProcessContinue(c) ==
    /\ calls[c].op = "process"
    /\ calls[c].pc = "itemSettled"
    /\ LET o   == calls[c].outcome
           rec == [calls[c] EXCEPT
                      !.results = Append(@, IF o.kind = "returned" THEN o.pred
                                            ELSE ProcessingError),
                      !.paths = Append(@, calls[c].path)]
       IN IF TimerDue(rec.index - 1)
          THEN /\ calls' = [calls EXCEPT ![c] =
                               [rec EXCEPT !.pc = "timer", !.yields = @ + 1,
                                           !.outcome = NoOutcome]]
               /\ UNCHANGED isLoading
          ELSE /\ calls' = [calls EXCEPT ![c] = ProcessFrom(rec, rec.index + 1)]
               /\ isLoading' = (isLoading \/ ProcessStartsLoad(rec, rec.index + 1))
    /\ UNCHANGED <<classifier, isReady, modelCache, insertions, probe>>

\* line 151: the timer of setTimeout(resolve, 10) fires
TimerFire(c) ==
    /\ calls[c].pc = "timer"
    /\ calls' = [calls EXCEPT ![c] = ProcessFrom(calls[c], calls[c].index + 1)]
    /\ isLoading' = (isLoading \/ ProcessStartsLoad(calls[c], calls[c].index + 1))
    /\ UNCHANGED <<classifier, isReady, modelCache, insertions, probe>>

\* the caller takes the settled result and is free to call again
Return(c) ==
    /\ calls[c].pc = "done"
    /\ calls' = [calls EXCEPT ![c] = IdleCall]
    /\ UNCHANGED <<classifier, isLoading, isReady, modelCache, insertions, probe>>

Next ==
    \/ \E c \in PredictCallers, t \in PredictTexts : Predict(c, t)
    \/ \E c \in InitCallers : Initialize(c)
    \/ \E c \in Callers : LoadGPUResolve(c)
    \/ \E c \in Callers : LoadGPUReject(c)
    \/ \E c \in Callers : LoadCPUResolve(c)
    \/ \E c \in Callers : LoadCPUReject(c)
    \/ \E c \in Callers : PredictResume(c)
    \/ \E c \in Callers, r \in Responses : ClassifierReturn(c, r)
    \/ \E c \in Callers : ClassifierThrow(c)
    \/ \E c \in BatchCallers, msgs \in BatchInputs : BatchPredict(c, msgs)
    \/ \E c \in Callers : BatchContinue(c)
    \/ \E c \in Callers : Return(c)

Spec == Init /\ [][Next]_vars

\* the program with a classifier that answers POSITIVE or NEGATIVE with
\* score 1, or throws
NextLive ==
    \/ \E c \in PredictCallers, t \in PredictTexts : Predict(c, t)
    \/ \E c \in InitCallers : Initialize(c)
    \/ \E c \in Callers : LoadGPUResolve(c)
    \/ \E c \in Callers : LoadGPUReject(c)
    \/ \E c \in Callers : LoadCPUResolve(c)
    \/ \E c \in Callers : LoadCPUReject(c)
    \/ \E c \in Callers : PredictResume(c)
    \/ \E c \in Callers, r \in WarmResponses : ClassifierReturn(c, r)
    \/ \E c \in Callers : ClassifierThrow(c)
    \/ \E c \in BatchCallers, msgs \in BatchInputs : BatchPredict(c, msgs)
    \/ \E c \in Callers : BatchContinue(c)
    \/ \E c \in Callers : Return(c)

\* every classifier load and every inference call settles, and a loop or a
\* call whose awaited promise has settled is resumed by the event loop
Settling ==
    \A c \in Callers :
        /\ WF_vars(LoadGPUResolve(c) \/ LoadGPUReject(c))
        /\ WF_vars(LoadCPUResolve(c) \/ LoadCPUReject(c))
        /\ WF_vars(ClassifierThrow(c) \/ \E r \in WarmResponses : ClassifierReturn(c, r))
        /\ WF_vars(PredictResume(c))
        /\ WF_vars(BatchContinue(c))

SpecLive == Init /\ [][NextLive]_vars /\ Settling

\* the program with a cache one entry short of its limit
NextWarm ==
    \/ \E c \in Callers, t \in WarmTexts : Predict(c, t)
    \/ \E c \in Callers, r \in WarmResponses : ClassifierReturn(c, r)
    \/ \E c \in Callers : ClassifierThrow(c)
    \/ \E c \in Callers : Return(c)

SpecWarm == InitWarm /\ [][NextWarm]_vars

\* the program with a classifier that gives one answer to every text
FixedResponse == WarmResponse

NextFixed ==
    \/ \E c \in Callers, t \in WarmTexts : Predict(c, t)
    \/ \E c \in Callers : ClassifierReturn(c, FixedResponse)
    \/ \E c \in Callers : Return(c)

SpecFixed == InitWarm /\ [][NextFixed]_vars

\* the program with a classifier that loads and throws on every inference
NextThrow ==
    \/ \E c \in Callers, t \in ThrowTexts : Predict(c, t)
    \/ \E c \in Callers : LoadGPUResolve(c)
    \/ \E c \in Callers : LoadGPUReject(c)
    \/ \E c \in Callers : LoadCPUResolve(c)
    \/ \E c \in Callers : PredictResume(c)
    \/ \E c \in Callers : ClassifierThrow(c)
    \/ \E c \in Callers : Return(c)

SpecThrow == InitFresh /\ [][NextThrow]_vars

\* predict of two spellings of a text, the classifier giving one answer
NextCase ==
    \/ \E c \in Callers, t \in CaseTexts : Predict(c, t)
    \/ \E c \in Callers : LoadGPUResolve(c)
    \/ \E c \in Callers : PredictResume(c)
    \/ \E c \in Callers : ClassifierReturn(c, FixedResponse)
    \/ \E c \in Callers : Return(c)

SpecCase == InitFresh /\ [][NextCase]_vars

\* batchPredict and handleBatchProcess over long lists of texts that are all
\* in the cache
NextBatch ==
    \/ \E c \in BatchCallers, msgs \in CachedBatches : BatchPredict(c, msgs)
    \/ \E c \in Callers : BatchContinue(c)
    \/ \E c \in PredictCallers, rows \in UploadedRows : HandleBatchProcess(c, rows)
    \/ \E c \in Callers : ProcessContinue(c)
    \/ \E c \in Callers : TimerFire(c)
    \/ \E c \in Callers : Return(c)

SpecBatch == InitWarm /\ [][NextBatch]_vars

\* the pure functions, each applied to an input and its value kept in probe
detectorVars == <<classifier, isLoading, isReady, modelCache, insertions, calls>>

Probe(fn, t, p, ind, out) ==
    /\ probe' = [fn |-> fn, text |-> t, p |-> p, ind |-> ind,
                 response |-> NoResponse, out |-> out]
    /\ UNCHANGED detectorVars

\* enhanceWithRules and what predict (lines 137-140) derives from its value
ProbeEnhance ==
    /\ probe.fn = "none"
    /\ \E t \in EnhanceTexts, p \in ProbeProbabilities, ind \in ProbeIndicators :
          LET e == enhanceWithRules(t, p, ind)
          IN Probe("enhanceWithRules", t, p, ind,
                   [ enhanced  |-> e,
                     label     |-> IF e.riskScore > 50 THEN "threat" ELSE "benign",
                     riskLevel |-> calculateRiskLevel(e.riskScore) ])

ProbeCleanText ==
    /\ probe.fn = "none"
    /\ \E t \in ProbeTexts : Probe("cleanText", t, 0, NoIndicators, cleanText(t))

ProbeRiskIndicators ==
    /\ probe.fn = "none"
    /\ \E t \in ProbeTexts :
          Probe("calculateRiskIndicators", t, 0, NoIndicators, calculateRiskIndicators(t))

ProbeEntities ==
    /\ probe.fn = "none"
    /\ \E t \in ProbeTexts :
          Probe("extractEntities", t, 0, NoIndicators, extractEntities(t))

\* predict, lines 116-131: the threat probability of a classifier answer
ProbeThreatProbability ==
    /\ probe.fn = "none"
    /\ \E r \in Responses :
          probe' = [NoProbe EXCEPT !.fn = "threatProbability", !.response = r,
                                   !.out = ThreatProbability(r)]
    /\ UNCHANGED detectorVars

ProbeFallback ==
    /\ probe.fn = "none"
    /\ \E t \in FallbackTexts :
          Probe("fallbackPrediction", t, 0, NoIndicators, fallbackPrediction(t))

ProbeReset ==
    /\ probe.fn # "none"
    /\ probe' = NoProbe
    /\ UNCHANGED detectorVars

NextPure ==
    \/ ProbeEnhance
    \/ ProbeCleanText
    \/ ProbeRiskIndicators
    \/ ProbeEntities
    \/ ProbeThreatProbability
    \/ ProbeFallback
    \/ ProbeReset

SpecPure == InitFresh /\ [][NextPure]_vars

(***************************************************************************)
(* Properties                                                              *)
(***************************************************************************)
\* a call of predict (directly, or as an item of batchPredict) has settled
PredictSettled(c) ==
    \/ calls[c].op = "predict" /\ calls[c].pc = "done"
    \/ calls[c].op = "batch" /\ calls[c].pc = "itemSettled"

\* every prediction in the state: settled results, batch results, cache
Predictions ==
    {calls[c].outcome.pred : c \in {d \in Callers : calls[d].outcome.kind = "returned"
                                                   /\ calls[d].op # "initialize"}}
    \cup UNION {{calls[c].results[i] : i \in 1..Len(calls[c].results)} : c \in Callers}
    \cup {modelCache[i].value : i \in 1..Len(modelCache)}

\* C1: when the loaded classifier throws during inference, predict does not
\* reject; it returns the prediction of the Fallback Predictor for its text.
C1_ThrowGivesFallback ==
    \A c \in Callers :
        (PredictSettled(c) /\ calls[c].path = "fallback")
        => /\ calls[c].outcome.kind = "returned"
           /\ calls[c].outcome.pred = FallbackOf[calls[c].text]

C1_Witness ==
    /\ calls["a"].op = "predict" /\ calls["a"].pc = "done"
    /\ calls["a"].path = "fallback"
    /\ classifier = "pipeline"
    /\ calls["a"].outcome.pred.confidence = 80
    /\ calls["a"].outcome.pred \notin {EnhancedOf[T_Attack][r] : r \in Responses}

C3_OverlapNeverRejects ==
    \A c \in Callers :
        (calls[c].op \in {"predict", "batch"} /\ calls[c].sawLoading)
        => calls[c].outcome.error # "Model not initialized"

\* C4: every prediction returned by predict and every element returned by
\* batchPredict has riskScore and confidence in [0, 1].
C4_Bounded ==
    \A p \in Predictions :
        /\ 0 <= p.riskScore /\ p.riskScore <= 100
        /\ 0 <= p.confidence /\ p.confidence <= 100

\* the score enhancer clamped a sum above 1, and a batch holds a safe default
C4_Witness ==
    /\ calls["a"].pc = "done" /\ calls["a"].path = "enhanced"
    /\ calls["a"].outcome.pred.riskScore = 100
    /\ calls["a"].outcome.pred.confidence = 95
    /\ \E i \in 1..Len(calls["b"].results) : calls["b"].results[i] = SafeDefault

\* C5: for every prediction, label is threat exactly when riskScore > 0.5,
\* riskLevel is high exactly when riskScore >= 0.7, medium exactly when
\* 0.4 <= riskScore < 0.7, and low otherwise.
C5_ThresholdConsistency ==
    \A p \in Predictions :
        /\ (p.label = "threat") <=> (p.riskScore > 50)
        /\ p.label \in {"threat", "benign"}
        /\ (p.riskLevel = "high") <=> (p.riskScore >= 70)
        /\ (p.riskLevel = "medium") <=> (40 <= p.riskScore /\ p.riskScore < 70)
        /\ (p.riskLevel = "low") <=> (p.riskScore < 40)

\* a cached prediction at the threshold 0.7, a cache hit or fallback result
\* and a safe default
C5_Witness ==
    /\ \E i \in 1..Len(modelCache) :
          modelCache[i].value.riskScore = 70 /\ modelCache[i].value.riskLevel = "high"
    /\ calls["a"].pc = "done" /\ calls["a"].path \in {"hit", "fallback"}
    /\ \E i \in 1..Len(calls["b"].results) : calls["b"].results[i] = SafeDefault

\* two consecutive items of a batch are two calls of predict, the second
\* starting after the first has completed
SameKeyPair(c, i) ==
    /\ i + 1 <= Len(calls[c].results)
    /\ calls[c].messages[i] # NullLike
    /\ calls[c].messages[i + 1] # NullLike
    /\ calls[c].messages[i] # calls[c].messages[i + 1]
    /\ KeyOf[calls[c].messages[i]] = KeyOf[calls[c].messages[i + 1]]

Invoked(path) == path \in {"enhanced", "fallback"}

\* C6 as stated: two calls of predict, one after the other, with texts that
\* differ only in case and surrounding whitespace invoke the classifier at
\* most once in total.
C6_AtMostOneInvocation ==
    \A c \in Callers : \A i \in 1..Len(calls[c].results) :
        SameKeyPair(c, i)
        => ~(Invoked(calls[c].paths[i]) /\ Invoked(calls[c].paths[i + 1]))

\* C6 amended: the same, provided the classifier did not throw in the first
\* call; when it answered, the second call is a cache hit.
C6_AtMostOneInvocationUnlessThrow ==
    \A c \in Callers : \A i \in 1..Len(calls[c].results) :
        (SameKeyPair(c, i) /\ calls[c].paths[i] # "fallback")
        => /\ ~(Invoked(calls[c].paths[i]) /\ Invoked(calls[c].paths[i + 1]))
           /\ calls[c].paths[i] = "enhanced" => calls[c].paths[i + 1] = "hit"

C6_Witness ==
    \E i \in 1..Len(calls["b"].results) :
        /\ SameKeyPair("b", i)
        /\ calls["b"].paths[i] = "enhanced"
        /\ calls["b"].paths[i + 1] = "hit"

\* C7: two overlapping predict calls with the same cache key never both
\* invoke the classifier.
C7_NoDuplicateInvocation ==
    \A c, d \in Callers :
        (c # d /\ calls[c].pc = "awaitClassifier" /\ calls[d].pc = "awaitClassifier")
        => KeyOf[calls[c].text] # KeyOf[calls[d].text]

\* C8: in every state the prediction cache holds at most 100 entries.
C8_CacheBounded == Len(modelCache) <= MaxCacheSize

\* the cache is full after an eviction, while another call is suspended
C8_Witness ==
    /\ Len(modelCache) = MaxCacheSize
    /\ insertions > MaxCacheSize
    /\ \E c \in Callers : calls[c].pc = "awaitClassifier"

\* C9: when an insertion makes the cache exceed 100 entries, the entry that
\* leaves is the one created earliest among those present, whatever cache
\* hits came in between, and the entry just created stays.
C9_EvictsOldest ==
    [][ /\ (CacheKeys(modelCache) \ CacheKeys(modelCache') # {})
           => /\ insertions' = insertions + 1
              /\ Len(modelCache) = MaxCacheSize
              /\ \E i \in 1..Len(modelCache) :
                    /\ CacheKeys(modelCache) \ CacheKeys(modelCache') = {modelCache[i].key}
                    /\ \A j \in 1..Len(modelCache) :
                          modelCache[i].stamp <= modelCache[j].stamp
        /\ (insertions' # insertions)
           => \E j \in 1..Len(modelCache') :
                 /\ modelCache'[j].stamp = insertions'
                 /\ modelCache'[j].key \notin CacheKeys(modelCache) ]_vars

\* the oldest key was evicted although it was the one served from the cache
C9_Witness ==
    /\ ~CacheHas(modelCache, KeyOf[Filler(1)])
    /\ Len(modelCache) = MaxCacheSize
    /\ \E c \in Callers :
          /\ calls[c].pc = "done" /\ calls[c].text = Filler(1)
          /\ calls[c].path = "hit"

\* C10: batchPredict never rejects; it processes its items in input order,
\* one at a time, and returns one element per item, element i being the
\* prediction for item i (or the safe default when predict rejected).
C10_BatchShape ==
    \A c \in Callers :
        calls[c].op = "batch"
        => /\ calls[c].outcome.kind # "rejected" \/ calls[c].pc = "itemSettled"
           /\ Len(calls[c].results) <= Len(calls[c].messages)
           /\ Len(calls[c].paths) = Len(calls[c].results)
           /\ calls[c].pc = "done" <=> Len(calls[c].results) = Len(calls[c].messages)
           /\ calls[c].pc # "done"
                 => calls[c].text = calls[c].messages[Len(calls[c].results) + 1]
           /\ \A i \in 1..Len(calls[c].results) :
                 IF calls[c].paths[i] = "rejected"
                 THEN calls[c].results[i] = SafeDefault
                 ELSE /\ calls[c].results[i].text \in AllTexts
                      /\ calls[c].messages[i] \in AllTexts
                      /\ KeyOf[calls[c].results[i].text] = KeyOf[calls[c].messages[i]]

C10_Witness ==
    /\ calls["b"].op = "batch" /\ calls["b"].pc = "done"
    /\ calls["b"].messages = << <<>>, NullLike, T_Attack >>
    /\ calls["b"].results[1].text = <<>>
    /\ calls["b"].results[2] = SafeDefault
    /\ calls["b"].results[3].text = T_Attack

\* C11: when predict rejects for an item of a batch, batchPredict puts in that
\* position a prediction with label benign, riskScore 0.1, riskLevel low, five
\* empty entity lists and no features, and goes on with the next item: the
\* batch is done only when every item has a result.
C11_RejectedItemGetsSafeDefault ==
    \A c \in Callers :
        calls[c].op = "batch"
        => \A i \in 1..Len(calls[c].results) :
              calls[c].paths[i] = "rejected"
              => /\ calls[c].results[i].label = "benign"
                 /\ calls[c].results[i].riskScore = 10
                 /\ calls[c].results[i].riskLevel = "low"
                 /\ \A f \in {"targets", "dates", "tools", "urls", "ips"} :
                        calls[c].results[i].entities[f] = <<>>
                 /\ calls[c].results[i].features = <<>>
                 /\ (i = Len(calls[c].results) /\ i < Len(calls[c].messages))
                        => /\ calls[c].pc \in {"loadGPU", "loadCPU", "initSettled",
                                               "awaitClassifier", "itemSettled"}
                           /\ calls[c].text = calls[c].messages[i + 1]

C11_Witness ==
    /\ calls["b"].op = "batch" /\ calls["b"].pc = "done"
    /\ calls["b"].messages = << NullLike, T_Attack, T_AttackPadded >>
    /\ calls["b"].paths[1] = "rejected"
    /\ calls["b"].results[1].riskScore = 10
    /\ calls["b"].paths[2] \in {"enhanced", "fallback"}
    /\ calls["b"].results[2].text = T_Attack
    /\ calls["b"].results[3].text = T_AttackPadded

\* C12: with a classifier that gives the same label and score to every
\* invocation, every completed predict(text), whether computed, served from
\* the cache or recomputed after the eviction of its entry, returns the one
\* label, riskScore, riskLevel, confidence and explanation of that text.
C12_Deterministic ==
    \A c \in Callers :
        (PredictSettled(c) /\ calls[c].outcome.kind = "returned")
        => LET p == calls[c].outcome.pred
               q == EnhancedOf[calls[c].text][FixedResponse]
           IN /\ p.label = q.label
              /\ p.riskScore = q.riskScore
              /\ p.riskLevel = q.riskLevel
              /\ p.confidence = q.confidence
              /\ p.explanation = q.explanation

C12_Witness ==
    /\ calls["a"].pc = "done" /\ calls["a"].text = Filler(1)
    /\ calls["a"].path = "enhanced"
    /\ insertions > MaxCacheSize
    /\ calls["b"].pc = "done" /\ calls["b"].text = T_Attack
    /\ calls["b"].path = "hit"
    /\ calls["b"].outcome.pred.text = T_AttackPadded

\* C13: with a classifier that throws on every inference, predict of
\* "Plan DDoS on examplebank.com this Friday at 3 AM UTC" returns riskScore
\* 0.3, the base 0.1 plus 0.2 for the one keyword found, "ddos", with no
\* commercial and no urgency boost, and riskLevel low.
C13_PlanScore ==
    \A c \in Callers :
        (PredictSettled(c) /\ calls[c].text = T_Plan
            /\ calls[c].outcome.kind = "returned")
        => /\ calls[c].outcome.pred.riskScore = 30
           /\ calls[c].outcome.pred.riskLevel = "low"
           /\ calls[c].outcome.pred.explanation
                 = << <<"Using rule-based fallback", 0>>, <<"Threat keywords", 1>> >>

C13_Witness ==
    /\ calls["a"].op = "predict" /\ calls["a"].pc = "done"
    /\ calls["a"].text = T_Plan /\ calls["a"].path = "fallback"
    /\ calls["a"].outcome.pred.riskScore = 30

\* C14 as stated: with a classifier that throws on every inference, predict
\* of "Plan DDoS on examplebank.com this Friday at 3 AM UTC" returns the label
\* threat.
C14_PlanLabelThreat ==
    \A c \in Callers :
        (PredictSettled(c) /\ calls[c].text = T_Plan
            /\ calls[c].outcome.kind = "returned")
        => calls[c].outcome.pred.label = "threat"

\* C14, amended: the label returned for that text is benign, its riskScore
\* 0.3 not being above 0.5.
C14_PlanLabelBenign ==
    \A c \in Callers :
        (PredictSettled(c) /\ calls[c].text = T_Plan
            /\ calls[c].outcome.kind = "returned")
        => /\ calls[c].outcome.pred.label = "benign"
           /\ calls[c].outcome.pred.riskScore <= 50

C14_Witness ==
    /\ calls["b"].op = "predict" /\ calls["b"].pc = "done"
    /\ calls["b"].text = T_Plan /\ calls["b"].path = "fallback"
    /\ calls["b"].outcome.pred.label = "benign"

\* C15: with baseThreatProbability 0.5, every risk indicator zero and a text
\* that contains "ransomware" and matches neither the DDoS nor the phishing
\* pattern, enhanceWithRules adds one boost of 0.3: riskScore is 0.8, the
\* riskLevel high and the label threat.
C15_RansomwareBoost ==
    (/\ probe.fn = "enhanceWithRules"
     /\ probe.p = 50
     /\ probe.ind = NoIndicators
     /\ Includes(ToLower(probe.text), T_ransomware)
     /\ ~RegexTest(ddosPattern, probe.text)
     /\ ~RegexTest(phishingPattern, probe.text))
    => /\ probe.out.enhanced.riskScore = 80
       /\ probe.out.enhanced.explanation
             = << <<"Model prediction enhanced by rules", 0>>,
                  <<"Ransomware pattern", 30>> >>
       /\ probe.out.riskLevel = "high"
       /\ probe.out.label = "threat"

C15_Witness ==
    /\ probe.fn = "enhanceWithRules"
    /\ probe.text = T_newRansomware
    /\ probe.p = 50
    /\ probe.ind = NoIndicators
    /\ probe.out.enhanced.riskScore = 80

\* the normalisation C16 describes: lower case, runs of whitespace collapsed,
\* every character that is not a word character, whitespace or one of
\* . ! ? @ - _ replaced by a space, the ends trimmed
C16_Normalized(t) ==
    LET lowered == CollapseSpaces(ToLower(t))
    IN Trim([i \in 1..Len(lowered) |->
                IF IsWordChar(lowered[i]) \/ IsSpace(lowered[i])
                      \/ lowered[i] \in {".", "!", "?", "@", "-", "_"}
                THEN lowered[i] ELSE " "])

\* C16: cleanText keeps every word character, every whitespace character and
\* each of . ! ? @ - _ of the lower-cased input and replaces every other
\* character by a space; a lower-case word such as "ddos" or "attack" is
\* returned unchanged.
C16_KeepsWordCharacters ==
    probe.fn = "cleanText"
    => /\ probe.out = C16_Normalized(probe.text)
       /\ probe.text \in {T_ddos, T_attack} => probe.out = probe.text

\* C17: highRiskCount is the sum over the seven high-risk keywords of their
\* split-counted occurrences in the lower-cased text, so it is at least 1 for
\* a text that contains one of them.
C17_CountsHighRiskKeywords ==
    probe.fn = "calculateRiskIndicators"
    => /\ probe.out.highRiskCount
             = SumSplitCounts(ToLower(probe.text), highRiskKeywords, 1)
       /\ (\E k \in 1..Len(highRiskKeywords) :
               Includes(ToLower(probe.text), highRiskKeywords[k]))
          => probe.out.highRiskCount >= 1

\* C18: extractEntities("Who wants to buy credentials for mail.example.org?
\* cheap") returns urls = targets = ["mail.example.org"] and no ips, tools or
\* dates.
C18_CredentialsEntities ==
    (probe.fn = "extractEntities" /\ probe.text = T_Creds)
    => /\ probe.out.urls = << <<"m","a","i","l",".","e","x","a","m","p","l","e",".","o","r","g">> >>
       /\ probe.out.targets = probe.out.urls
       /\ probe.out.ips = <<>>
       /\ probe.out.tools = <<>>
       /\ probe.out.dates = <<>>

C18_Witness ==
    /\ probe.fn = "extractEntities"
    /\ probe.text = T_Creds
    /\ Len(probe.out.urls) = 1

\* the number of the three attack patterns each text of EnhanceTexts matches
C20_Matched(t) ==
    CASE t = T_hello         -> 0
      [] t = T_ddos          -> 1
      [] t = T_ransomware    -> 1
      [] t = T_newRansomware -> 1
      [] t = T_phishRansom   -> 2
      [] t = T_allThree      -> 3

\* C20: with base probability p, counts h = highRiskCount and t = toolCount,
\* flags c = commercialScore and u = urgencyScore and m matched attack
\* patterns, enhanceWithRules returns
\*   riskScore  = clamp(p + [h>0] min(0.2h, 0.4) + [t>0] min(0.15t, 0.3)
\*                        + 0.25c + 0.15u + 0.3m, 0, 1)
\*   confidence = min(|p - 0.5| * 2 + 0.1n, 0.95), n the number of triggered
\* clauses; mediumRiskCount has no effect on either.
C20_ClosedForm ==
    probe.fn = "enhanceWithRules"
    => LET p == probe.p
           h == probe.ind.highRiskCount
           t == probe.ind.toolCount
           c == probe.ind.commercialScore
           u == probe.ind.urgencyScore
           m == C20_Matched(probe.text)
           n == (IF h > 0 THEN 1 ELSE 0) + (IF t > 0 THEN 1 ELSE 0) + c + u + m
           sum == p + (IF h > 0 THEN Min(20 * h, 40) ELSE 0)
                    + (IF t > 0 THEN Min(15 * t, 30) ELSE 0)
                    + 25 * c + 15 * u + 30 * m
       IN /\ probe.out.enhanced.riskScore = Min(Max(sum, 0), 100)
          /\ probe.out.enhanced.confidence = Min(Abs(p - 50) * 2 + 10 * n, 95)

C20_Witness ==
    /\ probe.fn = "enhanceWithRules"
    /\ probe.text = T_phishRansom
    /\ probe.p = 5
    /\ probe.ind = [ highRiskCount |-> 3, mediumRiskCount |-> 2, toolCount |-> 1,
                     urgencyScore |-> 0, commercialScore |-> 1 ]
    /\ probe.out.enhanced.riskScore = 100
    /\ probe.out.enhanced.confidence = 95

\* the callers whose classifier load (the pipeline call of initialize) is in
\* flight
Loading == {c \in Callers : calls[c].pc \in {"loadGPU", "loadCPU"}}

\* C19: under any interleaving of predict and initialize calls at most one
\* initialization attempt is in flight, and once isReady is true it stays
\* true and no classifier load is started.
C19_SingleInitialization ==
    [][/\ Cardinality(Loading) <= 1
       /\ Cardinality(Loading') <= 1
       /\ Loading # {} => isLoading /\ ~isReady
       /\ isReady => (isReady' /\ Loading' = {})]_vars

C19_Witness ==
    /\ calls["a"].pc \in {"loadGPU", "loadCPU"}
    /\ calls["b"].pc = "initSettled"
    /\ calls["b"].sawLoading
    /\ isLoading
    /\ ~isReady

\* C21: for every classifier result with a score s in [0,1], s = 0 included,
\* the threat probability handed to enhanceWithRules is s when the label is
\* NEGATIVE and 1 - s otherwise.
C21_ThreatProbabilityFromScore ==
    (probe.fn = "threatProbability" /\ probe.response.kind = "result")
    => probe.out = IF probe.response.label = "NEGATIVE"
                   THEN probe.response.score
                   ELSE 100 - probe.response.score

\* the number k of the twelve threat keywords each text of FallbackTexts
\* contains, and whether it holds a commercial and an urgency keyword
C22_Expected(t) ==
    CASE t = <<>>             -> [k |-> 0, commercial |-> 0, urgency |-> 0]
      [] t = T_hello          -> [k |-> 0, commercial |-> 0, urgency |-> 0]
      [] t = T_ddos           -> [k |-> 1, commercial |-> 0, urgency |-> 0]
      [] t = T_Attack         -> [k |-> 4, commercial |-> 1, urgency |-> 0]
      [] t = T_Plan           -> [k |-> 1, commercial |-> 0, urgency |-> 0]
      [] t = T_Creds          -> [k |-> 1, commercial |-> 1, urgency |-> 0]
      [] t = T_buyNow         -> [k |-> 0, commercial |-> 0, urgency |-> 1]
      [] t = T_bargain        -> [k |-> 0, commercial |-> 1, urgency |-> 1]
      [] t = T_breach         -> [k |-> 5, commercial |-> 0, urgency |-> 0]
      [] t = T_urgentLeak     -> [k |-> 2, commercial |-> 0, urgency |-> 1]
      [] t = T_sellingMalware -> [k |-> 2, commercial |-> 1, urgency |-> 0]

\* C22: for every text the Fallback Predictor returns
\*   riskScore  = min(0.1 + 0.2k + 0.25 [a commercial keyword is present]
\*                              + 0.15 [an urgency keyword is present], 1)
\*   confidence = min(0.2k + 0.3, 0.8)
\* k being the number of distinct words of the threat list the text contains;
\* the commercial and the urgency boost are each applied at most once.
C22_FallbackClosedForm ==
    probe.fn = "fallbackPrediction"
    => LET e == C22_Expected(probe.text)
       IN /\ probe.out.riskScore
                = Min(10 + 20 * e.k + 25 * e.commercial + 15 * e.urgency, 100)
          /\ probe.out.confidence = Min(20 * e.k + 30, 80)

C22_Witness ==
    /\ probe.fn = "fallbackPrediction"
    /\ probe.text = T_bargain
    /\ probe.out.riskScore = 50
    /\ probe.out.confidence = 30

\* C23: a cache entry, once created for a key, is never overwritten or
\* replaced while it stays in the cache, whatever the interleaving of predict
\* calls, overlapping calls with the same key included; it leaves the cache
\* only by FIFO eviction.
C23_EntriesNeverOverwritten ==
    [][\A i \in 1..Len(modelCache) :
          \A j \in 1..Len(modelCache') :
              modelCache'[j].key = modelCache[i].key
              => modelCache'[j].value = modelCache[i].value]_vars

\* caller c enters predict in this step: by predict itself or as the next
\* item of a batch
EntersPredict(c) ==
    /\ calls[c].pc \in {"idle", "itemSettled"}
    /\ calls'[c] # calls[c]
    /\ calls'[c].op \in {"predict", "batch"}
    /\ calls'[c].text \in AllTexts

\* C24: a predict call whose key is in the cache returns the stored
\* prediction (label, riskScore, riskLevel, confidence, explanation, entities
\* and features) and leaves the cache, its order and both flags as they are:
\* it starts no initialization and does not invoke the classifier.
C24_HitReturnsStoredAndChangesNothing ==
    [][\A c \in Callers :
          \A i \in 1..Len(modelCache) :
              (EntersPredict(c) /\ modelCache[i].key = KeyOf[calls'[c].text])
              => /\ calls'[c].pc \in {"done", "itemSettled"}
                 /\ calls'[c].path = "hit"
                 /\ calls'[c].outcome = Returned(modelCache[i].value)
                 /\ modelCache' = modelCache
                 /\ insertions' = insertions
                 /\ isReady' = isReady
                 /\ isLoading' = isLoading
                 /\ classifier' = classifier]_vars

\* a hit while the other caller's classifier call for another text is pending
C24_Witness ==
    /\ calls["a"].op = "predict" /\ calls["a"].pc = "done"
    /\ calls["a"].path = "hit"
    /\ calls["a"].text = T_Attack
    /\ calls["a"].outcome.pred.text = T_AttackPadded
    /\ calls["b"].pc = "awaitClassifier"
    /\ Len(modelCache) = 1

\* C25: batchPredict yields control to the event loop after every tenth item
\* it has processed, also when every item is served from the cache: by the
\* time it is past its eleventh item it has waited for the event loop once.
C25_BatchPredictYields ==
    \A c \in Callers :
        calls[c].op = "batch"
        => calls[c].yields >= (Len(calls[c].results) \div 11)

\* C26: a fallback prediction is never stored: when the classifier call
\* throws, predict leaves the cache as it is, so every cached prediction came
\* from the Score Enhancer path, and a later predict with the same key, the
\* key not being cached, invokes the classifier again.
C26_FallbackNeverCached ==
    [][/\ \A c \in Callers :
             (calls[c].pc = "awaitClassifier" /\ calls'[c].path = "fallback")
             => (modelCache' = modelCache /\ insertions' = insertions)
       /\ \A i \in 1..Len(modelCache') :
             /\ modelCache'[i].value.explanation[1][1] # "Using rule-based fallback"
             /\ \E t \in AllTexts, r \in Responses :
                   modelCache'[i].value = EnhancedOf[t][r]
       /\ \A c \in Callers :
             (EntersPredict(c) /\ isReady
                 /\ KeyOf[calls'[c].text] \notin CacheKeys(modelCache))
             => calls'[c].pc = "awaitClassifier"]_vars

\* both items of a batch, which have the same key, were answered by the
\* fallback, and the cache is still empty
C26_Witness ==
    /\ calls["b"].messages = <<T_Attack, T_AttackPadded>>
    /\ calls["b"].paths = <<"fallback", "fallback">>
    /\ calls["b"].pc = "done"
    /\ modelCache = <<>>
    /\ isReady

\* C27: the prediction predict(text) returns, its entities included, depends
\* on the text and on the classifier's answer to it only, not on the texts
\* predicted before: it is the prediction a detector that has seen no other
\* text returns, also after a differently-cased spelling was predicted.
C27_IndependentOfEarlierTexts ==
    \A c \in Callers :
        (PredictSettled(c) /\ calls[c].outcome.kind = "returned")
        => LET p == calls[c].outcome.pred
               q == EnhancedOf[calls[c].text][FixedResponse]
           IN /\ p.entities = q.entities
              /\ p.features = q.features
              /\ p.label = q.label
              /\ p.riskScore = q.riskScore
              /\ p.riskLevel = q.riskLevel
              /\ p.confidence = q.confidence
              /\ p.explanation = q.explanation

\* C28: in every state between two synchronous steps, which is what
\* getStatus can observe, isReady and isLoading are not both true, isReady
\* implies that the classifier is set, and isReady never goes back from true
\* to false.
C28_StatusConsistent ==
    [][/\ ~(isReady /\ isLoading)
       /\ ~(isReady' /\ isLoading')
       /\ isReady => classifier = "pipeline"
       /\ isReady' => classifier' = "pipeline"
       /\ isReady => isReady']_vars

\* an initialize call made the model ready while a predict that had found it
\* loading is still to resume
C28_Witness ==
    /\ isReady /\ ~isLoading /\ classifier = "pipeline"
    /\ calls["a"].op = "initialize" /\ calls["a"].pc = "done"
    /\ calls["a"].outcome.kind = "returned"
    /\ ~calls["a"].sawLoading
    /\ calls["b"].pc = "initSettled" /\ calls["b"].sawLoading

\* a settling load of caller c in this step
LoadSettles(c) ==
    /\ calls[c].pc \in {"loadGPU", "loadCPU"}
    /\ calls'[c].pc \notin {"loadGPU", "loadCPU"}

\* C29: when an initialization attempt settles, by success or by failure,
\* isLoading is false again; after a failure isReady is false, so the next
\* predict of a text that is not cached starts a new attempt and is not held
\* up by the failed one.
C29_FailedLoadCanBeRetried ==
    [][/\ \A c \in Callers :
             LoadSettles(c)
             => /\ ~isLoading'
                /\ (calls'[c].initFailed \/ calls'[c].outcome.kind = "rejected")
                      => ~isReady'
                /\ ~(calls'[c].initFailed \/ calls'[c].outcome.kind = "rejected")
                      => isReady'
       /\ \A c \in Callers :
             (EntersPredict(c) /\ ~isReady /\ ~isLoading
                 /\ KeyOf[calls'[c].text] \notin CacheKeys(modelCache))
             => (calls'[c].pc = "loadGPU" /\ isLoading')]_vars

\* the first item of a batch was rejected by a failed load and the second
\* item has started a load of its own
C29_Witness ==
    /\ calls["b"].messages = <<T_Attack, T_AttackPadded>>
    /\ calls["b"].paths = <<"rejected">>
    /\ calls["b"].pc = "loadGPU"
    /\ isLoading /\ ~isReady

\* C30: if every classifier load and every inference call settles, every
\* predict call completes (returns or rejects) and every batchPredict call
\* returns with one result per item: a call stays pending for ever only while
\* a load or an inference call never settles.
C30_CallsComplete ==
    \A c \in Callers :
        /\ (calls[c].op = "predict") ~> (calls[c].op = "predict" /\ calls[c].pc = "done")
        /\ (calls[c].op = "batch")
              ~> (/\ calls[c].op = "batch" /\ calls[c].pc = "done"
                  /\ calls[c].outcome.kind # "rejected"
                  /\ Len(calls[c].results) = Len(calls[c].messages))

\* a batch has returned whose first item was rejected after a load and whose
\* second item the classifier answered, and a predict call has completed
C30_Witness ==
    /\ calls["b"].op = "batch" /\ calls["b"].pc = "done"
    /\ calls["b"].messages = <<T_Attack, T_AttackPadded>>
    /\ calls["b"].paths = <<"rejected", "enhanced">>
    /\ calls["a"].op = "predict" /\ calls["a"].pc = "done"

=============================================================================
